---- MODULE Spec2Model ----
(***************************************************************************)
(* shortie: a URL shortener.  The model covers the storage contract        *)
(* (storage.go) with its two backends, LocalStorage (a map behind one      *)
(* mutex) and DynamoStorage (a table with conditional writes and detached  *)
(* usage-increment goroutines), and the HTTP handlers of the API that call *)
(* it (HandleRedirect, GetUsageStats).                                     *)
(***************************************************************************)
EXTENDS Integers, Sequences, FiniteSets, Bags, TLC

VARIABLES
    backend,   \* which urlStorage main() installed: "local" or "dynamo"
    now,       \* time.Now() in unix seconds
    Objects,   \* LocalStorage.Objects: shortID -> URLObject
    table,     \* the DynamoDB table shortie-urls: shortID -> item
    tasks,     \* the detached goroutines of DynamoStorage.GetURL (a bag)
    stats,     \* the GetUsageStats request in progress
    ret,       \* what the last completed call returned
    hits       \* per id, the GetURL calls that found a record: in LocalStorage
               \* since the record was created, in DynamoStorage all of them

vars == <<backend, now, Objects, table, tasks, stats, ret, hits>>

----------------------------------------------------------------------------
(* Bounds of the model *)

MaxTicks == 2     \* clock steps, of half a day each
MaxGets == 2      \* GetURL calls that find a record, per id

(* Program constants *)

DaySeconds == 86400                 \* time.Hour * 24
StatusOK == 200
StatusTemporaryRedirect == 307
StatusNotFound == 404
StatusInternalServerError == 500
WeekLoop == 6                       \* for i := 0; i < 6; i++

StartTime == DaySeconds * 10        \* a UTC midnight
TickSeconds == DaySeconds \div 2

Ids == {"a", "b"}
\* the url and expiration of the create requests: one that never expires, one
\* that expires at StartTime, and the empty url CreateURL accepts unvalidated
Creates == {<<"u1", 0>>, <<"u2", StartTime>>, <<"", 0>>}

\* the requests sent to the table-backed store
DynamoIds == {"a"}
DynamoCreates == {<<"u1", 0>>, <<"u2", StartTime>>}
Times == {StartTime + k * TickSeconds : k \in 0..MaxTicks}

NoObject == [none |-> TRUE]
NoItem == [none |-> TRUE]
Null == [NULL |-> TRUE]

----------------------------------------------------------------------------
(* Time and day-bucket keys *)

\* strconv.Itoa: the decimal digits of n >= 0, most significant first
RECURSIVE Itoa(_)
Itoa(n) == IF n < 10 THEN <<n>> ELSE Append(Itoa(n \div 10), n % 10)

\* time.Now().UTC().Truncate(24h).Unix()
UTCTimestampOfTodayRounded(t) == t - (t % DaySeconds)

\* strconv.Itoa(int(UTCTimestampOfTodayRounded().Unix()))
TodayKey(t) == Itoa(UTCTimestampOfTodayRounded(t))

\* reading a Go map: the zero value for an absent key
Lookup(m, key) == IF key \in DOMAIN m THEN m[key] ELSE 0

\* m[key] = v
MapSet(m, key, v) == [k \in DOMAIN m \cup {key} |-> IF k = key THEN v ELSE m[k]]

EmptyMap == [k \in {} |-> 0]

\* a variant that stores 1 instead of the old count plus 1
Increment_Reset(m, t) == MapSet(m, TodayKey(t), 1)

\* a variant that counts every visit twice
Increment_Twice(m, t) == MapSet(m, TodayKey(t), Lookup(m, TodayKey(t)) + 2)

\* todayUsage := usage[today]; usage[today] = todayUsage + 1
Increment(m, t) == MapSet(m, TodayKey(t), Lookup(m, TodayKey(t)) + 1)

RECURSIVE SumMap(_)
SumMap(m) ==
    IF DOMAIN m = {} THEN 0
    ELSE LET k == CHOOSE x \in DOMAIN m : TRUE
         IN  m[k] + SumMap([x \in DOMAIN m \ {k} |-> m[x]])

RECURSIVE SumOver(_, _)
SumOver(S, f) ==
    IF S = {} THEN 0
    ELSE LET x == CHOOSE y \in S : TRUE IN f[x] + SumOver(S \ {x}, f)

----------------------------------------------------------------------------
(* Values *)

\* type URLObject struct
URLObject(shortID, url, expiration, usage) ==
    [ShortID |-> shortID, URL |-> url, Version |-> 0,
     Expiration |-> expiration, Usage |-> usage]

Nil == "nil"

\* what a storage call handed back to its caller, and the HTTP answer made of it
Ret(op, id, arg, url, err, status) ==
    [op |-> op, id |-> id, arg |-> arg, url |-> url, err |-> err, status |-> status]

\* The map GetStatistics hands out.  LocalStorage returns object.Usage itself:
\* a Go map is a reference, so the caller holds the map of the stored record,
\* Ref(id), and sees what later GetURL calls write to it.  Once the record is
\* deleted nothing else refers to that map, and the caller holds it as a value.
Ref(id) == [ref |-> id]
Val(m) == [val |-> m]
IsRef(handle) == DOMAIN handle = {"ref"}
Deref(handle) == IF IsRef(handle) THEN Objects[handle.ref].Usage ELSE handle.val

IdleStats ==
    [pc |-> "idle", id |-> "a", usage |-> Val(EmptyMap), err |-> Nil,
     todayTimestamp |-> 0, todayRead |-> 0, todayUsage |-> 0,
     weekUsage |-> 0, totalUsage |-> 0, status |-> 0]

----------------------------------------------------------------------------
(* shortieAPI.HandleRedirect: the answer to GET /shortie/{id}, given what   *)
(* storage.GetURL returned                                                  *)

RedirectStatus(url, err) ==
    IF err # Nil THEN StatusInternalServerError
    ELSE IF url = "" THEN StatusNotFound
    ELSE StatusTemporaryRedirect

HandleRedirect(id, url, err) ==
    ret' = Ret("GetURL", id, "", url, err, RedirectStatus(url, err))

----------------------------------------------------------------------------
(* LocalStorage: every method runs from Lock() to the deferred Unlock(),   *)
(* so each is one step                                                      *)

\* the visits the model has counted so far, capped by MaxGets
LocalLoad ==
    SumOver(Ids, [id \in Ids |->
        IF Objects[id] = NoObject THEN 0 ELSE SumMap(Objects[id].Usage)])

\* a variant without the found check: the last writer wins
LocalSaveURL_Overwrite(id, url, expiration) ==
    /\ backend = "local"
    /\ Objects' = [Objects EXCEPT ![id] = URLObject(id, url, expiration, EmptyMap)]
    /\ hits' = [hits EXCEPT ![id] = 0]
    /\ ret' = Ret("SaveURL", id, url, "", Nil, StatusOK)
    /\ UNCHANGED <<backend, now, table, tasks, stats>>

LocalSaveURL(id, url, expiration) ==
    /\ backend = "local"
    /\ IF Objects[id] # NoObject
       THEN UNCHANGED <<Objects, hits>>
       ELSE /\ Objects' = [Objects EXCEPT
                   ![id] = URLObject(id, url, expiration, EmptyMap)]
            /\ hits' = [hits EXCEPT ![id] = 0]
    /\ ret' = Ret("SaveURL", id, url, "", Nil, StatusOK)
    /\ UNCHANGED <<backend, now, table, tasks, stats>>

\* a variant that starts a fresh usage map on every visit
LocalGetURL_Fresh(id) ==
    /\ backend = "local"
    /\ IF Objects[id] = NoObject
       THEN /\ HandleRedirect(id, "", Nil)
            /\ UNCHANGED <<Objects, hits>>
       ELSE LET object == [Objects[id] EXCEPT !.Usage = Increment(EmptyMap, now)]
            IN  /\ LocalLoad < MaxGets
                /\ Objects' = [Objects EXCEPT ![id] = object]
                /\ hits' = [hits EXCEPT ![id] = @ + 1]
                /\ HandleRedirect(id, object.URL, Nil)
    /\ UNCHANGED <<backend, now, table, tasks, stats>>

LocalGetURL(id) ==
    /\ backend = "local"
    /\ IF Objects[id] = NoObject
       THEN /\ HandleRedirect(id, "", Nil)
            /\ UNCHANGED <<Objects, hits>>
       ELSE LET object == [Objects[id] EXCEPT !.Usage = Increment(@, now)]
            IN  /\ LocalLoad < MaxGets
                /\ Objects' = [Objects EXCEPT ![id] = object]
                /\ hits' = [hits EXCEPT ![id] = @ + 1]
                /\ HandleRedirect(id, object.URL, Nil)
    /\ UNCHANGED <<backend, now, table, tasks, stats>>

\* a variant that forgets the delete statement
LocalDeleteURL_Keep(id) ==
    /\ backend = "local"
    /\ ret' = Ret("DeleteURL", id, "", "", Nil, StatusOK)
    /\ UNCHANGED <<backend, now, Objects, table, tasks, stats, hits>>

\* delete(storage.Objects, shortID); a map handed out by GetStatistics lives on
\* with its holder
LocalDeleteURL(id) ==
    /\ backend = "local"
    /\ Objects' = [Objects EXCEPT ![id] = NoObject]
    /\ stats' = IF stats.usage = Ref(id)
                THEN [stats EXCEPT !.usage = Val(Objects[id].Usage)]
                ELSE stats
    /\ hits' = [hits EXCEPT ![id] = 0]
    /\ ret' = Ret("DeleteURL", id, "", "", Nil, StatusOK)
    /\ UNCHANGED <<backend, now, table, tasks>>

\* a variant that reports a missing record as an error
LocalGetStatistics_ErrOnMiss(id) ==
    IF Objects[id] = NoObject
    THEN [usage |-> Val(EmptyMap), err |-> "not found"]
    ELSE [usage |-> Ref(id), err |-> Nil]

\* the handle and error LocalStorage.GetStatistics returns
LocalGetStatistics(id) ==
    IF Objects[id] = NoObject
    THEN [usage |-> Val(EmptyMap), err |-> Nil]
    ELSE [usage |-> Ref(id), err |-> Nil]

----------------------------------------------------------------------------
(* DynamoStorage: the table and the attribute values of dynamodbattribute  *)

\* strconv.ParseInt of the digits Itoa wrote
RECURSIVE Atoi(_)
Atoi(digits) ==
    IF Len(digits) = 1 THEN digits[1]
    ELSE 10 * Atoi(SubSeq(digits, 1, Len(digits) - 1)) + digits[Len(digits)]

\* a string attribute: the encoder writes the empty string as NULL
AttrS(str) == IF str = "" THEN Null ELSE [S |-> str]
FromS(av) == IF av = Null THEN "" ELSE av.S

\* a number attribute: its decimal digits
AttrN(n) == [N |-> Itoa(n)]
FromN(av) == Atoi(av.N)

\* dynamodbattribute.MarshalMap(&object)
MarshalMap(object) ==
    [shortID    |-> AttrS(object.ShortID),
     url        |-> AttrS(object.URL),
     version    |-> AttrN(object.Version),
     expiration |-> AttrN(object.Expiration),
     usage      |-> [M |-> [k \in DOMAIN object.Usage |-> AttrN(object.Usage[k])]]]

\* dynamodbattribute.UnmarshalMap(out.Item, &object), then a nil Usage made empty
UnmarshalMap(item) ==
    [ShortID    |-> FromS(item.shortID),
     URL        |-> FromS(item.url),
     Version    |-> FromN(item.version),
     Expiration |-> FromN(item.expiration),
     Usage      |-> IF item.usage = Null THEN EmptyMap
                    ELSE [k \in DOMAIN item.usage.M |-> FromN(item.usage.M[k])]]

\* storage.getObject: (object, err); a request the store fails gives the error,
\* a key with no item gives (nil, nil)
NilObject == [nilptr |-> TRUE]
\* a variant that takes a failed read for a missing item
getObject_Swallow(id, fail) ==
    IF fail \/ table[id] = NoItem THEN [object |-> NilObject, err |-> Nil]
    ELSE [object |-> UnmarshalMap(table[id]), err |-> Nil]

getObject(id, fail) ==
    IF fail THEN [object |-> NilObject, err |-> "failed to read a shortID"]
    ELSE IF table[id] = NoItem THEN [object |-> NilObject, err |-> Nil]
    ELSE [object |-> UnmarshalMap(table[id]), err |-> Nil]

\* shortieAPI.CreateURL and DeleteURL answer 500 on an error, 200 otherwise
ErrStatus(err) == IF err # Nil THEN StatusInternalServerError ELSE StatusOK

\* a variant whose PutItem carries no condition
DynamoSaveURL_Unconditional(id, url, expiration, fail) ==
    /\ backend = "dynamo"
    /\ LET dynamoItem == MarshalMap(URLObject(id, url, expiration, EmptyMap))
           err == IF fail THEN "failed to save a url" ELSE Nil
       IN  /\ IF fail
              THEN UNCHANGED table
              ELSE table' = [table EXCEPT ![id] = dynamoItem]
           /\ ret' = Ret("SaveURL", id, url, "", err, ErrStatus(err))
    /\ UNCHANGED <<backend, now, Objects, tasks, stats, hits>>

DynamoSaveURL(id, url, expiration, fail) ==
    /\ backend = "dynamo"
    /\ LET dynamoItem == MarshalMap(URLObject(id, url, expiration, EmptyMap))
           \* PutItem with ConditionExpression attribute_not_exists(#shortID)
           conditionFailed == table[id] # NoItem
           err == IF fail THEN "failed to save a url" ELSE Nil
       IN  /\ IF fail \/ conditionFailed
              THEN UNCHANGED table
              ELSE table' = [table EXCEPT ![id] = dynamoItem]
           /\ ret' = Ret("SaveURL", id, url, "", err, ErrStatus(err))
    /\ UNCHANGED <<backend, now, Objects, tasks, stats, hits>>

DynamoGetURL(id, fail) ==
    /\ backend = "dynamo"
    /\ LET got == getObject(id, fail)
       IN  IF got.err # Nil
           THEN /\ HandleRedirect(id, "", got.err)
                /\ UNCHANGED <<tasks, hits>>
           ELSE IF got.object = NilObject
           THEN /\ HandleRedirect(id, "", Nil)
                /\ UNCHANGED <<tasks, hits>>
           ELSE /\ hits[id] < MaxGets
                \* go func() { ... }(), which keeps the ctx of the call
                /\ tasks' = tasks (+) SetToBag({[pc |-> "start", object |-> got.object,
                                                 ctxDone |-> FALSE]})
                /\ hits' = [hits EXCEPT ![id] = @ + 1]
                /\ HandleRedirect(id, got.object.URL, Nil)
    /\ UNCHANGED <<backend, now, Objects, table, stats>>

\* a variant of the goroutine that leaves the usage of its object as read
TaskIncrement_Skip(task) ==
    /\ BagIn(task, tasks)
    /\ task.pc = "start"
    /\ tasks' = (tasks (-) SetToBag({task})) (+) SetToBag({[task EXCEPT !.pc = "put"]})
    /\ UNCHANGED <<backend, now, Objects, table, stats, ret, hits>>

\* the goroutine of GetURL: bump today's bucket of the object it was handed
TaskIncrement(task) ==
    /\ BagIn(task, tasks)
    /\ task.pc = "start"
    /\ tasks' = (tasks (-) SetToBag({task})) (+)
           SetToBag({[task EXCEPT !.pc = "put",
                                  !.object.Usage = Increment(@, now)]})
    /\ UNCHANGED <<backend, now, Objects, table, stats, ret, hits>>

\* the caller of GetURL cancels the ctx it passed, after GetURL has returned
CancelContext(task) ==
    /\ BagIn(task, tasks)
    /\ ~task.ctxDone
    /\ tasks' = (tasks (-) SetToBag({task})) (+) SetToBag({[task EXCEPT !.ctxDone = TRUE]})
    /\ UNCHANGED <<backend, now, Objects, table, stats, ret, hits>>

\* a variant in which a failed PutItem of the goroutine is handed to the caller
TaskPut_Propagate(task, fail) ==
    /\ BagIn(task, tasks)
    /\ task.pc = "put"
    /\ tasks' = tasks (-) SetToBag({task})
    /\ IF fail \/ task.ctxDone
       THEN /\ UNCHANGED table
            /\ ret' = [ret EXCEPT !.err = "failed to save a url",
                                  !.status = StatusInternalServerError]
       ELSE /\ table' = [table EXCEPT ![task.object.ShortID] = MarshalMap(task.object)]
            /\ UNCHANGED ret
    /\ UNCHANGED <<backend, now, Objects, stats, hits>>

\* the goroutine of GetURL: PutItemWithContext(ctx, ...) of the whole object,
\* with no condition; the request fails when the store fails it or when ctx
\* is done; an error is logged and the goroutine ends
TaskPut(task, fail) ==
    /\ BagIn(task, tasks)
    /\ task.pc = "put"
    /\ tasks' = tasks (-) SetToBag({task})
    /\ IF fail \/ task.ctxDone
       THEN UNCHANGED table
       ELSE table' = [table EXCEPT ![task.object.ShortID] = MarshalMap(task.object)]
    /\ UNCHANGED <<backend, now, Objects, stats, ret, hits>>

DynamoDeleteURL(id, fail) ==
    /\ backend = "dynamo"
    /\ LET err == IF fail THEN "failed to delete a url object" ELSE Nil
       IN  /\ IF fail
              THEN UNCHANGED table
              ELSE table' = [table EXCEPT ![id] = NoItem]
           /\ ret' = Ret("DeleteURL", id, "", "", err, ErrStatus(err))
    /\ UNCHANGED <<backend, now, Objects, tasks, stats, hits>>

\* the map and error DynamoStorage.GetStatistics returns; object.Usage of the
\* nil object getObject gives for a missing item is a nil dereference
DynamoGetStatistics(id, fail) ==
    LET got == getObject(id, fail)
    IN  IF got.err # Nil THEN [usage |-> Val(EmptyMap), err |-> got.err]
        ELSE IF got.object = NilObject THEN [usage |-> Val(EmptyMap), err |-> "panic"]
        ELSE [usage |-> Val(got.object.Usage), err |-> Nil]

----------------------------------------------------------------------------
(* shortieAPI.GetUsageStats: GET /shortie/{id}/stats.  The handler calls   *)
(* GetStatistics and then reads the clock and the map it was handed, with  *)
(* no lock held; its steps interleave with the other requests.             *)

GetStatistics(id, fail) ==
    IF backend = "local" THEN LocalGetStatistics(id) ELSE DynamoGetStatistics(id, fail)

\* usage, err := api.storage.GetStatistics(c, shortID); a panic is answered
\* by gin's recovery handler
StatsBegin(id, fail) ==
    /\ stats.pc \in {"idle", "done"}
    /\ fail => backend = "dynamo"
    /\ LET got == GetStatistics(id, fail)
       IN  stats' = [IdleStats EXCEPT
                        !.pc = IF got.err # Nil THEN "done" ELSE "clock",
                        !.id = id, !.usage = got.usage, !.err = got.err,
                        !.status = ErrStatus(got.err)]
    /\ UNCHANGED <<backend, now, Objects, table, tasks, ret, hits>>

\* todayTimestamp := UTCTimestampOfTodayRounded()
StatsClock ==
    /\ stats.pc = "clock"
    /\ stats' = [stats EXCEPT !.pc = "today",
                              !.todayTimestamp = UTCTimestampOfTodayRounded(now)]
    /\ UNCHANGED <<backend, now, Objects, table, tasks, ret, hits>>

\* todayUsage := usage[strconv.Itoa(int(UTCTimestampOfTodayRounded().Unix()))]
StatsToday ==
    /\ stats.pc = "today"
    /\ stats' = [stats EXCEPT !.pc = "week",
                              !.todayRead = UTCTimestampOfTodayRounded(now),
                              !.todayUsage = Lookup(Deref(stats.usage), TodayKey(now))]
    /\ UNCHANGED <<backend, now, Objects, table, tasks, ret, hits>>

\* a variant whose loop runs once more, over seven earlier days
RECURSIVE WeekUsage_Seven(_, _, _, _)
WeekUsage_Seven(usage, dayTimestamp, weekUsage, i) ==
    IF i >= WeekLoop + 1 THEN weekUsage
    ELSE WeekUsage_Seven(usage, dayTimestamp - DaySeconds,
                         weekUsage + Lookup(usage, Itoa(dayTimestamp - DaySeconds)), i + 1)

\* weekUsage := todayUsage; six times: step a day back and add that bucket
RECURSIVE WeekUsage(_, _, _, _)
WeekUsage(usage, dayTimestamp, weekUsage, i) ==
    IF i >= WeekLoop THEN weekUsage
    ELSE WeekUsage(usage, dayTimestamp - DaySeconds,
                   weekUsage + Lookup(usage, Itoa(dayTimestamp - DaySeconds)), i + 1)

StatsWeek ==
    /\ stats.pc = "week"
    /\ stats' = [stats EXCEPT !.pc = "total",
                              !.weekUsage = WeekUsage(Deref(stats.usage),
                                  stats.todayTimestamp, stats.todayUsage, 0)]
    /\ UNCHANGED <<backend, now, Objects, table, tasks, ret, hits>>

\* a variant that counts the buckets instead of adding their values
TotalUsage_CountKeys(usage) == Cardinality(DOMAIN usage)

\* for _, dayUsage := range usage { totalUsage += dayUsage }
TotalUsage(usage) == SumMap(usage)

\* the loop over the map, then c.JSON(200, {lastDay, lastWeek, allTime})
StatsTotal ==
    /\ stats.pc = "total"
    /\ stats' = [stats EXCEPT !.pc = "done",
                              !.totalUsage = TotalUsage(Deref(stats.usage)),
                              !.status = StatusOK]
    /\ UNCHANGED <<backend, now, Objects, table, tasks, ret, hits>>

----------------------------------------------------------------------------
(* The clock *)

Tick ==
    /\ now + TickSeconds \in Times
    /\ now' = now + TickSeconds
    /\ UNCHANGED <<backend, Objects, table, tasks, stats, ret, hits>>

----------------------------------------------------------------------------
(* The system: main() installs one backend; requests arrive in any order   *)

Init ==
    /\ backend \in {"local", "dynamo"}
    /\ now = StartTime
    /\ Objects = [id \in Ids |-> NoObject]
    /\ table = [id \in Ids |-> NoItem]
    /\ tasks = EmptyBag
    /\ stats = IdleStats
    /\ ret = Ret("none", "a", "", "", Nil, 0)
    /\ hits = [id \in Ids |-> 0]

\* the calls of the storage contract, the increment goroutines and the clock
Next ==
    \/ \E id \in Ids, create \in Creates : LocalSaveURL(id, create[1], create[2])
    \/ \E id \in Ids : LocalGetURL(id)
    \/ \E id \in Ids : LocalDeleteURL(id)
    \/ \E id \in Ids : backend = "local" /\ StatsBegin(id, FALSE)
    \/ \E id \in DynamoIds, create \in DynamoCreates, fail \in BOOLEAN :
          DynamoSaveURL(id, create[1], create[2], fail)
    \/ \E id \in DynamoIds, fail \in BOOLEAN : DynamoGetURL(id, fail)
    \/ \E id \in DynamoIds, fail \in BOOLEAN : DynamoDeleteURL(id, fail)
    \/ \E task \in BagToSet(tasks) : TaskIncrement(task)
    \/ \E task \in BagToSet(tasks), fail \in BOOLEAN : TaskPut(task, fail)
    \/ Tick

Spec == Init /\ [][Next]_vars

----------------------------------------------------------------------------
(* The statistics requests alone, over a store that holds one record with  *)
(* any usage mapping over a few day buckets around the current day         *)

AggDays == {-8, -7, -6, -1, 0, 1}
AggCounts == {1, 2}
AggKeys == {Itoa(StartTime + d * DaySeconds) : d \in AggDays}
AggUsages == UNION {[D -> AggCounts] : D \in SUBSET AggKeys}

InitAgg ==
    /\ backend \in {"local", "dynamo"}
    /\ now = StartTime
    /\ \E usage \in AggUsages :
          LET object == URLObject("a", "u1", 0, usage)
          IN  /\ Objects = [id \in Ids |->
                     IF backend = "local" /\ id = "a" THEN object ELSE NoObject]
              /\ table = [id \in Ids |->
                     IF backend = "dynamo" /\ id = "a" THEN MarshalMap(object) ELSE NoItem]
              /\ hits = [id \in Ids |-> IF id = "a" THEN SumMap(usage) ELSE 0]
    /\ tasks = EmptyBag
    /\ stats = IdleStats
    /\ ret = Ret("none", "a", "", "", Nil, 0)

NextAgg ==
    \/ \E id \in Ids, fail \in BOOLEAN : StatsBegin(id, fail)
    \/ StatsClock
    \/ StatsToday
    \/ StatsWeek
    \/ StatsTotal
    \/ Tick

SpecAgg == InitAgg /\ [][NextAgg]_vars

----------------------------------------------------------------------------
(* The table-backed store visited by one client at a time: a GetURL starts *)
(* only when the goroutine of the one before has ended; no request fails   *)
(* and nothing is deleted                                                  *)

InitSerial == Init /\ backend = "dynamo"

NextSerial ==
    \/ \E id \in DynamoIds, create \in DynamoCreates :
          DynamoSaveURL(id, create[1], create[2], FALSE)
    \/ \E id \in DynamoIds : tasks = EmptyBag /\ DynamoGetURL(id, FALSE)
    \/ \E task \in BagToSet(tasks) : TaskIncrement(task)
    \/ \E task \in BagToSet(tasks) : TaskPut(task, FALSE)
    \/ Tick

SpecSerial == InitSerial /\ [][NextSerial]_vars

----------------------------------------------------------------------------
(* The table-backed store with all four calls of the storage contract, and *)
(* callers that may cancel the ctx of a GetURL once it has returned        *)

InitRemote == Init /\ backend = "dynamo"

NextRemote ==
    \/ \E id \in DynamoIds, create \in DynamoCreates, fail \in BOOLEAN :
          DynamoSaveURL(id, create[1], create[2], fail)
    \/ \E id \in DynamoIds, fail \in BOOLEAN : DynamoGetURL(id, fail)
    \/ \E id \in DynamoIds, fail \in BOOLEAN : DynamoDeleteURL(id, fail)
    \/ \E id \in DynamoIds, fail \in BOOLEAN : StatsBegin(id, fail)
    \/ \E task \in BagToSet(tasks) : CancelContext(task)
    \/ \E task \in BagToSet(tasks) : TaskIncrement(task)
    \/ \E task \in BagToSet(tasks), fail \in BOOLEAN : TaskPut(task, fail)
    \/ Tick

SpecRemote == InitRemote /\ [][NextRemote]_vars

----------------------------------------------------------------------------
(* Either store with requests on two ids, the statistics call included;    *)
(* no store request fails, and a GetURL of the table-backed store starts   *)
(* only when no goroutine is pending                                       *)

NextFrame ==
    \/ \E id \in Ids, create \in DynamoCreates : LocalSaveURL(id, create[1], create[2])
    \/ \E id \in Ids : LocalGetURL(id)
    \/ \E id \in Ids : LocalDeleteURL(id)
    \/ \E id \in Ids, create \in DynamoCreates :
          DynamoSaveURL(id, create[1], create[2], FALSE)
    \/ \E id \in Ids : tasks = EmptyBag /\ DynamoGetURL(id, FALSE)
    \/ \E id \in Ids : DynamoDeleteURL(id, FALSE)
    \/ \E id \in Ids : StatsBegin(id, FALSE)
    \/ \E task \in BagToSet(tasks) : TaskIncrement(task)
    \/ \E task \in BagToSet(tasks) : TaskPut(task, FALSE)
    \/ Tick

SpecFrame == Init /\ [][NextFrame]_vars

----------------------------------------------------------------------------
(* Properties *)

\* the URLObject the table holds for id
Stored(id) == UnmarshalMap(table[id])

\* C1: SaveURL on an id that already has a record returns success (unless the
\* store request itself failed) and leaves the record as it was, url,
\* expiration and usage, in both backends; the record is still there.
C1_SaveIdempotent ==
    [][\A id \in Ids, create \in Creates :
        /\ (LocalSaveURL(id, create[1], create[2]) /\ Objects[id] # NoObject)
              => /\ ret'.err = Nil
                 /\ Objects' = Objects
                 /\ Objects'[id].ShortID = id
        /\ \A fail \in BOOLEAN :
              (DynamoSaveURL(id, create[1], create[2], fail) /\ table[id] # NoItem)
                 => /\ ~fail => ret'.err = Nil
                    /\ table' = table
                    /\ Stored(id)'.ShortID = id]_vars

\* a second create with another url has returned on a record that had usage
C1_Witness ==
    /\ backend = "local"
    /\ ret.op = "SaveURL" /\ ret.err = Nil
    /\ Objects[ret.id] # NoObject
    /\ Objects[ret.id].URL # ret.arg
    /\ SumMap(Objects[ret.id].Usage) > 0

\* C2: on the table-backed store every SaveURL the store answers returns
\* success; it inserts its url when the id has no item and leaves the item of
\* the earlier insert untouched otherwise, so of two racing creates the first
\* applied is the one stored.
C2_CreateRace ==
    [][\A id \in Ids, create \in Creates :
        DynamoSaveURL(id, create[1], create[2], FALSE)
           => /\ ret'.err = Nil
              /\ table'[id] # NoItem
              /\ IF table[id] = NoItem
                 THEN Stored(id)' = URLObject(id, create[1], create[2], EmptyMap)
                 ELSE table'[id] = table[id]]_vars

\* the loser of a race has returned success: its url is not the one stored
C2_Witness ==
    /\ backend = "dynamo"
    /\ ret.op = "SaveURL" /\ ret.err = Nil
    /\ table[ret.id] # NoItem
    /\ Stored(ret.id).URL # ret.arg
    /\ Stored(ret.id).Usage = EmptyMap

\* C3: in LocalStorage the buckets of a record sum to the GetURL hits since it
\* was created; hits made within one UTC day are in the one bucket of that day;
\* and the map GetStatistics returns, also one handed out before later hits,
\* shows them all.
C3_LocalUsageExact ==
    backend = "local" =>
        /\ \A id \in Ids : Objects[id] # NoObject =>
              /\ SumMap(Objects[id].Usage) = hits[id]
              /\ LocalGetStatistics(id).err = Nil
              /\ SumMap(Deref(LocalGetStatistics(id).usage)) = hits[id]
              /\ UTCTimestampOfTodayRounded(now) = StartTime =>
                    Objects[id].Usage \in
                        {EmptyMap, [k \in {Itoa(StartTime)} |-> hits[id]]}
        /\ (stats.pc = "clock" /\ IsRef(stats.usage)) =>
              SumMap(Deref(stats.usage)) = hits[stats.id]

\* two hits of one day are in one bucket of a map handed out by GetStatistics
C3_Witness ==
    /\ backend = "local"
    /\ stats.pc = "clock" /\ IsRef(stats.usage)
    /\ hits[stats.id] = 2
    /\ Deref(stats.usage) = [k \in {Itoa(StartTime)} |-> 2]
    /\ now = StartTime + TickSeconds

\* C4: in LocalStorage, on an id with no record GetURL returns the empty url
\* and no error, DeleteURL returns no error, GetStatistics returns an empty
\* map and no error, and none of them changes the stored records.
C4_LocalMiss ==
    [][\A id \in Ids : Objects[id] = NoObject =>
        /\ LocalGetURL(id) =>
              ret'.url = "" /\ ret'.err = Nil /\ Objects' = Objects
        /\ LocalDeleteURL(id) =>
              ret'.err = Nil /\ Objects' = Objects
        /\ (backend = "local" /\ StatsBegin(id, FALSE)) =>
              /\ stats'.err = Nil
              /\ stats'.usage = Val(EmptyMap)
              /\ Objects' = Objects]_vars

\* GetURL and GetStatistics have missed on "b" while "a" has a record
C4_Witness ==
    /\ backend = "local"
    /\ Objects["a"] # NoObject /\ Objects["b"] = NoObject
    /\ ret.op = "GetURL" /\ ret.id = "b" /\ ret.url = "" /\ ret.err = Nil
    /\ stats.pc = "clock" /\ stats.id = "b" /\ stats.usage = Val(EmptyMap)

\* C5: on the table-backed store GetStatistics on an id with no item returns
\* an empty map and no error, unless the read itself failed.
C5_DynamoStatsMiss ==
    (backend = "dynamo" /\ stats.pc # "idle" /\ table[stats.id] = NoItem) =>
        /\ stats.err \in {Nil, "failed to read a shortID"}
        /\ stats.err = Nil => stats.usage = Val(EmptyMap)

\* C6: on the table-backed store, once DeleteURL has returned success and no
\* other call was made since, the table holds no item for the id and a GetURL
\* would find none, whatever the pending increment goroutines do.
C6_DeleteThenGet ==
    (backend = "dynamo" /\ ret.op = "DeleteURL" /\ ret.err = Nil) =>
        /\ table[ret.id] = NoItem
        /\ getObject(ret.id, FALSE).object = NilObject

\* C7: in LocalStorage DeleteURL returns success and removes the record of its
\* id alone, changing nothing when there is none; while an id has no record
\* GetURL returns the empty url and GetStatistics an empty map; only SaveURL
\* brings the record back, with an empty usage map.
C7_LocalDelete ==
    [][\A id \in Ids :
        /\ LocalDeleteURL(id) =>
              /\ ret'.err = Nil
              /\ Objects'[id] = NoObject
              /\ \A other \in Ids \ {id} : Objects'[other] = Objects[other]
              /\ Objects[id] = NoObject => Objects' = Objects
              /\ LocalGetStatistics(id)' = [usage |-> Val(EmptyMap), err |-> Nil]
        /\ (backend = "local" /\ Objects[id] = NoObject) =>
              /\ LocalGetURL(id) => (ret'.url = "" /\ Objects'[id] = NoObject)
              /\ StatsBegin(id, FALSE) =>
                    (stats'.usage = Val(EmptyMap) /\ Objects'[id] = NoObject)
              /\ Objects'[id] # NoObject =>
                    /\ ret'.op = "SaveURL" /\ ret'.id = id
                    /\ Objects'[id] = URLObject(id, ret'.arg, Objects'[id].Expiration,
                                                EmptyMap)]_vars

\* a record with usage was deleted while a statistics request held its map,
\* and SaveURL has created the id again, with no usage
C7_Witness ==
    /\ backend = "local"
    /\ ret.op = "SaveURL"
    /\ Objects[ret.id] # NoObject /\ Objects[ret.id].Usage = EmptyMap
    /\ stats.pc = "clock" /\ stats.id = ret.id
    /\ ~IsRef(stats.usage) /\ stats.usage # Val(EmptyMap)

\* C8: GET /shortie/{id} is answered 307 with the stored url whenever the id
\* has a record, whatever url is stored, and 404 only when it has none.
C8_Redirect ==
    [][\A id \in Ids :
        /\ LocalGetURL(id) =>
              /\ Objects[id] # NoObject =>
                    /\ ret'.status = StatusTemporaryRedirect
                    /\ ret'.url = Objects[id].URL
              /\ ret'.status = StatusNotFound => Objects[id] = NoObject
        /\ DynamoGetURL(id, FALSE) =>
              /\ table[id] # NoItem =>
                    /\ ret'.status = StatusTemporaryRedirect
                    /\ ret'.url = Stored(id).URL
              /\ ret'.status = StatusNotFound => table[id] = NoItem]_vars

\* the expiration stored for id, 0 when it has no record
ExpirationOf(id) ==
    IF backend = "local"
    THEN IF Objects[id] = NoObject THEN 0 ELSE Objects[id].Expiration
    ELSE IF table[id] = NoItem THEN 0 ELSE Stored(id).Expiration

Expired(id) == ExpirationOf(id) # 0 /\ ExpirationOf(id) < now

\* C9: GET /shortie/{id} is answered 404 for a record whose expiration is not
\* 0 and lies before the current time.
C9_Expiration ==
    [][\A id \in Ids :
        (Expired(id) /\ (LocalGetURL(id) \/ DynamoGetURL(id, FALSE)))
           => ret'.status = StatusNotFound]_vars

\* C10: with the clock in one UTC day throughout the request, lastDay is the
\* value stored under the decimal unix seconds of that day's midnight, 0 when
\* there is no such bucket; allTime is the sum of all buckets; an empty map
\* gives 0 for lastDay, lastWeek and allTime.
C10_Aggregation ==
    (/\ stats.pc = "done" /\ stats.status = StatusOK
     /\ UTCTimestampOfTodayRounded(now) = stats.todayTimestamp) =>
        LET usage == Deref(stats.usage)
            midnight == DaySeconds * (now \div DaySeconds)
        IN  /\ \A k \in DOMAIN usage : Atoi(k) = midnight => stats.todayUsage = usage[k]
            /\ (\A k \in DOMAIN usage : Atoi(k) # midnight) => stats.todayUsage = 0
            /\ stats.totalUsage =
                  Cardinality(UNION {{<<k, i>> : i \in 1..usage[k]} : k \in DOMAIN usage})
            /\ usage = EmptyMap =>
                  stats.todayUsage = 0 /\ stats.weekUsage = 0 /\ stats.totalUsage = 0

\* an answer with a bucket for today and older buckets besides, after midday
C10_Witness ==
    /\ stats.pc = "done" /\ stats.status = StatusOK
    /\ UTCTimestampOfTodayRounded(now) = stats.todayTimestamp
    /\ now = StartTime + TickSeconds
    /\ stats.todayUsage = 2
    /\ stats.totalUsage > stats.weekUsage
    /\ stats.weekUsage > stats.todayUsage

\* the visits a usage map holds under the keys of a set
VisitsIn(usage, keys) ==
    Cardinality(UNION {{<<k, i>> : i \in 1..usage[k]} : k \in keys})

\* C11: with the clock in one UTC day throughout the request, lastWeek is the
\* sum of the buckets of today and of the six days before it: a bucket six
\* days old is in it; a bucket seven or more days old, or one dated after
\* today, is not, and is counted in allTime only.
C11_WeekWindow ==
    (/\ stats.pc = "done" /\ stats.status = StatusOK
     /\ UTCTimestampOfTodayRounded(now) = stats.todayTimestamp) =>
        LET usage == Deref(stats.usage)
            midnight == DaySeconds * (now \div DaySeconds)
            window == {k \in DOMAIN usage :
                         /\ Atoi(k) <= midnight
                         /\ midnight - Atoi(k) <= 6 * DaySeconds}
        IN  /\ stats.weekUsage = VisitsIn(usage, window)
            /\ stats.totalUsage - stats.weekUsage =
                  VisitsIn(usage, DOMAIN usage \ window)
            /\ \A k \in DOMAIN usage :
                  /\ Atoi(k) = midnight - 6 * DaySeconds => stats.weekUsage >= usage[k]
                  /\ (Atoi(k) <= midnight - 7 * DaySeconds \/ Atoi(k) > midnight) =>
                        stats.totalUsage - stats.weekUsage >= usage[k]

\* an answer over a map whose buckets are six days old, eight days old and
\* dated tomorrow: lastWeek is the first alone, allTime the three together
C11_Witness ==
    /\ stats.pc = "done" /\ stats.status = StatusOK
    /\ UTCTimestampOfTodayRounded(now) = stats.todayTimestamp
    /\ LET usage == Deref(stats.usage)
           six == Itoa(stats.todayTimestamp - 6 * DaySeconds)
           eight == Itoa(stats.todayTimestamp - 8 * DaySeconds)
           tomorrow == Itoa(stats.todayTimestamp + DaySeconds)
       IN  /\ DOMAIN usage = {six, eight, tomorrow}
           /\ usage[six] = 2 /\ usage[eight] = 1
           /\ stats.weekUsage = 2
           /\ stats.totalUsage = 3 + usage[tomorrow]

\* C12: while an id has a record, in either backend, no step changes the url
\* or the expiration stored for it, and every GetURL that finds the record
\* returns the stored url: only DeleteURL followed by SaveURL replaces them.
C12_NoOverwrite ==
    [][\A id \in Ids :
        /\ (Objects[id] # NoObject /\ Objects'[id] # NoObject) =>
              /\ Objects'[id].URL = Objects[id].URL
              /\ Objects'[id].Expiration = Objects[id].Expiration
        /\ (table[id] # NoItem /\ table'[id] # NoItem) =>
              /\ Stored(id)'.URL = Stored(id).URL
              /\ Stored(id)'.Expiration = Stored(id).Expiration
        /\ (LocalGetURL(id) /\ Objects[id] # NoObject) => ret'.url = Objects[id].URL
        /\ (DynamoGetURL(id, FALSE) /\ table[id] # NoItem) =>
              ret'.url = Stored(id).URL]_vars

\* C13: a GetURL of the table-backed store whose read finds the item returns
\* the stored url and no error, and what its goroutine does afterwards never
\* changes what the caller got; a goroutine whose PutItem fails leaves the
\* table as it was.
C13_BackgroundFailure ==
    [][/\ \A id \in Ids :
             (DynamoGetURL(id, FALSE) /\ table[id] # NoItem) =>
                /\ ret'.url = Stored(id).URL /\ ret'.err = Nil
                /\ ret'.status = RedirectStatus(Stored(id).URL, Nil)
                /\ table' = table
       /\ \A task \in BagToSet(tasks) :
             /\ TaskIncrement(task) => (ret' = ret /\ table' = table)
             /\ \A fail \in BOOLEAN : TaskPut(task, fail) => ret' = ret
             /\ TaskPut(task, TRUE) => table' = table]_vars

\* GetURL has returned the url with no error, its goroutine has ended, and
\* the record shows no visit: the write failed
C13_Witness ==
    /\ backend = "dynamo"
    /\ ret.op = "GetURL" /\ ret.url = "u1" /\ ret.err = Nil
    /\ hits[ret.id] = 1
    /\ tasks = EmptyBag
    /\ table[ret.id] # NoItem
    /\ Stored(ret.id).Usage = EmptyMap

\* two GetURL calls in flight have read the same copy: the goroutine of one has
\* written N+1 and the goroutine of the other is about to write N+1 again
C14_LostUpdate ==
    /\ backend = "dynamo"
    /\ \E task \in BagToSet(tasks) :
          /\ tasks = SetToBag({task})
          /\ task.pc = "put" /\ ~task.ctxDone
          /\ hits[task.object.ShortID] = 2
          /\ table[task.object.ShortID] = MarshalMap(task.object)
          /\ SumMap(task.object.Usage) = 1

C15_NotCancelled ==
    [][\A task \in BagToSet(tasks) :
        (TaskPut(task, FALSE) /\ task.ctxDone) =>
            table'[task.object.ShortID] = MarshalMap(task.object)]_vars

\* every key of the old map is in the new one, with a count no smaller
Grows(old, new) ==
    \A k \in DOMAIN old : k \in DOMAIN new /\ new[k] >= old[k]

C17_Serialized ==
    [][\A id \in Ids :
        (LocalGetURL(id) /\ stats.pc \notin {"idle", "done"}) =>
            Deref(stats.usage)' = Deref(stats.usage)]_vars

\* C18: in every answer of a statistics request, also one during which the
\* clock passed midnight, the day whose bucket is lastDay is the day the week
\* window starts from, and lastWeek is the sum of the buckets of that day and
\* the six days before it.
C18_DayConsistent ==
    (stats.pc = "done" /\ stats.status = StatusOK) =>
        LET usage == Deref(stats.usage)
            window == {k \in DOMAIN usage :
                         /\ Atoi(k) <= stats.todayRead
                         /\ stats.todayRead - Atoi(k) <= 6 * DaySeconds}
        IN  /\ stats.todayRead = stats.todayTimestamp
            /\ stats.todayUsage = Lookup(usage, Itoa(stats.todayRead))
            /\ stats.weekUsage = VisitsIn(usage, window)

\* C19: on the table-backed store a request the store fails ends its call
\* with an error: SaveURL stores nothing; GetURL returns no url and starts no
\* goroutine; GetStatistics returns no map and the request is answered 500;
\* DeleteURL deletes nothing.  A SaveURL the store answers returns success,
\* also when the condition of its PutItem did not hold.
C19_BackendFailure ==
    [][\A id \in DynamoIds :
        /\ \A create \in DynamoCreates :
              /\ DynamoSaveURL(id, create[1], create[2], TRUE) =>
                    /\ ret'.err # Nil /\ ret'.status = StatusInternalServerError
                    /\ table' = table
              /\ DynamoSaveURL(id, create[1], create[2], FALSE) =>
                    /\ ret'.err = Nil
                    /\ table[id] # NoItem => table' = table
        /\ DynamoGetURL(id, TRUE) =>
              /\ ret'.err # Nil /\ ret'.url = ""
              /\ ret'.status = StatusInternalServerError
              /\ tasks' = tasks /\ table' = table /\ hits' = hits
        /\ StatsBegin(id, TRUE) =>
              /\ stats'.err # Nil /\ stats'.usage = Val(EmptyMap)
              /\ stats'.pc = "done" /\ stats'.status = StatusInternalServerError
              /\ tasks' = tasks /\ table' = table
        /\ DynamoDeleteURL(id, TRUE) =>
              /\ ret'.err # Nil /\ ret'.status = StatusInternalServerError
              /\ table' = table]_vars

\* on a record that is there, GetURL and GetStatistics have both failed: no
\* url, no map, no goroutine
C19_Witness ==
    /\ backend = "dynamo"
    /\ ret.op = "GetURL" /\ ret.err # Nil /\ ret.url = ""
    /\ table[ret.id] # NoItem
    /\ hits[ret.id] = 0 /\ tasks = EmptyBag
    /\ stats.pc = "done" /\ stats.id = ret.id
    /\ stats.err = "failed to read a shortID"

\* C20: on the table-backed store the buckets stored for an id never sum to
\* more than the GetURL calls on that id whose read has found a record so
\* far, whatever SaveURL, DeleteURL and the increment goroutines have done.
C20_NoOverCount ==
    backend = "dynamo" =>
        \A id \in Ids :
            table[id] # NoItem => SumMap(Stored(id).Usage) <= hits[id]

\* two visits were made, their goroutines have ended, and one visit is stored
C20_Witness ==
    /\ backend = "dynamo"
    /\ tasks = EmptyBag
    /\ \E id \in Ids :
          /\ table[id] # NoItem
          /\ hits[id] = 2
          /\ SumMap(Stored(id).Usage) = 1

\* a usage map with one visit added to the bucket of the day of t
PlusOne(usage, t) == MapSet(usage, TodayKey(t), Lookup(usage, TodayKey(t)) + 1)

\* a call on id a, the goroutine of its GetURL included, leaves what is stored
\* for every other id as it was
OtherIdsUnchanged ==
    \A a \in Ids :
        (\/ \E create \in DynamoCreates : LocalSaveURL(a, create[1], create[2])
         \/ LocalGetURL(a)
         \/ LocalDeleteURL(a)
         \/ \E create \in DynamoCreates : DynamoSaveURL(a, create[1], create[2], FALSE)
         \/ DynamoGetURL(a, FALSE)
         \/ DynamoDeleteURL(a, FALSE)
         \/ StatsBegin(a, FALSE)
         \/ \E task \in BagToSet(tasks) :
               /\ task.object.ShortID = a
               /\ TaskIncrement(task) \/ TaskPut(task, FALSE))
        => \A b \in Ids \ {a} : Objects'[b] = Objects[b] /\ table'[b] = table[b]

\* LocalStorage: a GetURL that finds the record adds one visit to the bucket
\* of the current day and changes nothing else of the record
LocalGetHitAddsOne ==
    \A a \in Ids :
        (LocalGetURL(a) /\ Objects[a] # NoObject) =>
            Objects'[a] = [Objects[a] EXCEPT !.Usage = PlusOne(@, now)]

\* the table-backed store: GetURL itself writes nothing, and the write of its
\* goroutine finds the record there and adds one visit to one day bucket of
\* what is stored, changing nothing else of it
DynamoGetHitAddsOne ==
    /\ \A a \in Ids : DynamoGetURL(a, FALSE) => table' = table
    /\ \A task \in BagToSet(tasks) :
          /\ TaskIncrement(task) => table' = table
          /\ TaskPut(task, FALSE) =>
                LET a == task.object.ShortID
                IN  /\ table[a] # NoItem
                    /\ \E t \in Times :
                          /\ t <= now
                          /\ Stored(a)' = [Stored(a) EXCEPT !.Usage = PlusOne(@, t)]

\* C21: in both backends SaveURL, GetURL with its usage increment, DeleteURL
\* and GetStatistics on one id leave the record of every other id as it was,
\* and a GetURL that finds its record changes nothing of it but one day
\* bucket, to which it adds 1.
C21_Confined ==
    [][OtherIdsUnchanged /\ LocalGetHitAddsOne /\ DynamoGetHitAddsOne]_vars

====
